---------------------------- MODULE Spec2Model ----------------------------
(***************************************************************************)
(* A model of the CS2 video config editor (src/main.py): the config text   *)
(* parser and serializer, the schema-driven decode/encode of the setting   *)
(* widgets, and the editor's load / edit / reset / save / close handlers.  *)
(*                                                                         *)
(* Strings are sequences of symbols.  A symbol is either one character     *)
(* (the quote, a tab, a space, a newline, a digit, a sign, a letter) or a  *)
(* word that stands for a fixed run of ordinary characters (a schema key,  *)
(* "video.cfg", an option label).  No word used here is a concatenation of *)
(* other symbols, so two sequences are equal exactly when the strings they *)
(* spell are equal.                                                        *)
(***************************************************************************)
EXTENDS Integers, Sequences, FiniteSets, TLC

Q   == "\""
TAB == "\t"
SP  == " "
NL  == "\n"

\* The characters the regex class \s matches, among the symbols used here.
Whitespace == {SP, TAB}

-----------------------------------------------------------------------------
(* Python dict with insertion order: a sequence of [k, v] entries with     *)
(* pairwise different keys.                                                *)

DictKeys(d) == [i \in 1..Len(d) |-> d[i].k]

DictHas(d, k) == \E i \in 1..Len(d) : d[i].k = k

\* d.get(k, None): the value, or the marker None.
None == <<"None">>

\* The position of key k in d.
DictIndex(d, k) == CHOOSE i \in 1..Len(d) : d[i].k = k

DictGet(d, k) == IF DictHas(d, k) THEN d[DictIndex(d, k)].v ELSE None

\* A plausible bug: d[k] = v that moves an existing key to the end.
DictSetMoveToEnd(d, k, v) ==
  Append(SelectSeq(d, LAMBDA e : e.k # k), [k |-> k, v |-> v])

\* d[k] = v: update in place when k is present, append otherwise.
DictSet(d, k, v) ==
  IF DictHas(d, k)
  THEN [d EXCEPT ![DictIndex(d, k)] = [k |-> k, v |-> v]]
  ELSE Append(d, [k |-> k, v |-> v])

-----------------------------------------------------------------------------
(* parse_config: str.splitlines, then re.finditer of                       *)
(*     "([^"]+)"\s+"([^"]+)"                                               *)
(* on each line.                                                           *)

\* The least j >= i with s[j] = Q, or 0 when there is none.
RECURSIVE NextQuote(_, _)
NextQuote(s, i) ==
  IF i > Len(s) THEN 0
  ELSE IF s[i] = Q THEN i
  ELSE NextQuote(s, i + 1)

\* The length of the longest run of whitespace starting at s[i].
RECURSIVE WsRun(_, _)
WsRun(s, i) ==
  IF i > Len(s) \/ s[i] \notin Whitespace THEN 0
  ELSE 1 + WsRun(s, i + 1)

\* The regex anchored at position i of line s.  [^"]+ must end right before
\* the next quote, and \s+ must take the whole whitespace run (a shorter run
\* is followed by whitespace, not by a quote), so there is at most one match.
MatchAt(s, i) ==
  LET j == NextQuote(s, i + 1)
      w == WsRun(s, j + 1)
      p == j + 1 + w
      e == NextQuote(s, p + 1)
      ok == /\ i <= Len(s) /\ s[i] = Q
            /\ j > i + 1
            /\ w >= 1
            /\ p <= Len(s) /\ s[p] = Q
            /\ e > p + 1
  IN  IF ok
      THEN [ok |-> TRUE, k |-> SubSeq(s, i + 1, j - 1),
            v |-> SubSeq(s, p + 1, e - 1), end |-> e]
      ELSE [ok |-> FALSE, k |-> <<>>, v |-> <<>>, end |-> 0]

\* re.finditer: leftmost matches, left to right, not overlapping.
RECURSIVE FindAll(_, _)
FindAll(s, i) ==
  IF i > Len(s) THEN <<>>
  ELSE LET m == MatchAt(s, i)
       IN  IF m.ok THEN <<[k |-> m.k, v |-> m.v]>> \o FindAll(s, m.end + 1)
           ELSE FindAll(s, i + 1)

\* The least j >= i with t[j] = NL, or Len(t) + 1 when there is none.
RECURSIVE LineEnd(_, _)
LineEnd(t, i) ==
  IF i > Len(t) \/ t[i] = NL THEN i ELSE LineEnd(t, i + 1)

\* str.splitlines: the text cut at every newline; a newline ending the text
\* opens no further line.
RECURSIVE LinesFrom(_, _)
LinesFrom(t, i) ==
  IF i > Len(t) THEN <<>>
  ELSE <<SubSeq(t, i, LineEnd(t, i) - 1)>> \o LinesFrom(t, LineEnd(t, i) + 1)

SplitLines(t) == LinesFrom(t, 1)

\* config[k] = v for every match, in order.  (The loops bind each
\* intermediate dict c to its value before they go on.)
RECURSIVE StoreAll(_, _)
StoreAll(config, ms) ==
  IF ms = <<>> THEN config
  ELSE CHOOSE r \in {StoreAll(c, Tail(ms)) :
                      c \in {DictSet(config, Head(ms).k, Head(ms).v)}} : TRUE

RECURSIVE ParseLines(_, _)
ParseLines(config, lines) ==
  IF lines = <<>> THEN config
  ELSE CHOOSE r \in {ParseLines(c, Tail(lines)) :
                      c \in {StoreAll(config, FindAll(Head(lines), 1))}} : TRUE

parse_config(raw_txt) == ParseLines(<<>>, SplitLines(raw_txt))

-----------------------------------------------------------------------------
(* serialize_config                                                        *)

\* A plausible bug: one tab between key and value.
EntryLineOneTab(e) == <<TAB, Q>> \o e.k \o <<Q, TAB, Q>> \o e.v \o <<Q>>

\* A plausible bug: key and value written without a separator.
EntryLineNoSep(e) == <<TAB, Q>> \o e.k \o <<Q, Q>> \o e.v \o <<Q>>

\* One entry: a tab, the quoted key, two tabs, the quoted value.
EntryLine(e) == <<TAB, Q>> \o e.k \o <<Q, TAB, TAB, Q>> \o e.v \o <<Q>>

\* "\n".join(lines)
RECURSIVE JoinLines(_)
JoinLines(lines) ==
  IF lines = <<>> THEN <<>>
  ELSE IF Len(lines) = 1 THEN Head(lines)
  ELSE Head(lines) \o <<NL>> \o JoinLines(Tail(lines))

SerializeLines(settings) ==
  <<  <<Q, "video.cfg", Q>>, <<"{">>  >>
    \o [i \in 1..Len(settings) |-> EntryLine(settings[i])]
    \o <<  <<"}">>  >>

serialize_config(settings) == JoinLines(SerializeLines(settings))

-----------------------------------------------------------------------------
(* The schema: SETTINGS_SCHEMA in declaration order.  An option is written *)
(* "value:label".                                                          *)

SETTINGS_SCHEMA ==
  <<
    [key |-> <<"setting.max_fps">>, type |-> "int", min |-> 0, max |-> 999],
    [key |-> <<"setting.defaultres">>, type |-> "int", min |-> 320, max |-> 7680],
    [key |-> <<"setting.defaultresheight">>, type |-> "int", min |-> 200, max |-> 4320],
    [key |-> <<"setting.refreshrate_numerator">>, type |-> "int", min |-> 30, max |-> 1000],
    [key |-> <<"setting.refreshrate_denominator">>, type |-> "int", min |-> 1, max |-> 4],
    [key |-> <<"setting.fullscreen">>, type |-> "bool"],
    [key |-> <<"setting.mat_vsync">>, type |-> "bool"],
    [key |-> <<"setting.monitor_index">>, type |-> "int", min |-> 0, max |-> 7],
    [key |-> <<"setting.cpu_level">>, type |-> "enum",
     options |-> << <<"0", ":", "Low">>,
                  <<"1", ":", "Medium">>,
                  <<"2", ":", "High">>,
                  <<"3", ":", "Ultra">> >>],
    [key |-> <<"setting.gpu_mem_level">>, type |-> "enum",
     options |-> << <<"0", ":", "Low">>,
                  <<"1", ":", "Medium">>,
                  <<"2", ":", "High">>,
                  <<"3", ":", "Ultra">> >>],
    [key |-> <<"setting.gpu_level">>, type |-> "enum",
     options |-> << <<"0", ":", "Low">>,
                  <<"1", ":", "Medium">>,
                  <<"2", ":", "High">>,
                  <<"3", ":", "Ultra">> >>],
    [key |-> <<"setting.knowndevice">>, type |-> "bool"],
    [key |-> <<"setting.nowindowborder">>, type |-> "bool"],
    [key |-> <<"setting.fullscreen_min_on_focus_loss">>, type |-> "bool"],
    [key |-> <<"setting.high_dpi">>, type |-> "bool"],
    [key |-> <<"setting.coop_fullscreen">>, type |-> "bool"],
    [key |-> <<"setting.shaderquality">>, type |-> "enum",
     options |-> << <<"0", ":", "Low">>,
                  <<"1", ":", "Med">>,
                  <<"2", ":", "High">>,
                  <<"3", ":", "Ultra">> >>],
    [key |-> <<"setting.r_texturefilteringquality">>, type |-> "enum",
     options |-> << <<"0", ":", "Bilinear">>,
                  <<"1", ":", "Trilinear">>,
                  <<"2", ":", "Aniso", " ", "4", "x">>,
                  <<"3", ":", "Aniso", " ", "8", "x">>,
                  <<"4", ":", "Aniso", " ", "1", "6", "x">> >>],
    [key |-> <<"setting.msaa_samples">>, type |-> "enum",
     options |-> << <<"0", ":", "Off">>,
                  <<"2", ":", "2", "x">>,
                  <<"4", ":", "4", "x">>,
                  <<"8", ":", "8", "x">> >>],
    [key |-> <<"setting.r_csgo_cmaa_enable">>, type |-> "bool"],
    [key |-> <<"setting.videocfg_shadow_quality">>, type |-> "enum",
     options |-> << <<"0", ":", "Low">>,
                  <<"1", ":", "Med">>,
                  <<"2", ":", "High">>,
                  <<"3", ":", "Very", " ", "High">> >>],
    [key |-> <<"setting.videocfg_dynamic_shadows">>, type |-> "enum",
     options |-> << <<"0", ":", "Off">>,
                  <<"1", ":", "Some">>,
                  <<"2", ":", "All">> >>],
    [key |-> <<"setting.videocfg_texture_detail">>, type |-> "enum",
     options |-> << <<"0", ":", "Low">>,
                  <<"1", ":", "Med">>,
                  <<"2", ":", "High">>,
                  <<"3", ":", "Ultra">> >>],
    [key |-> <<"setting.videocfg_particle_detail">>, type |-> "enum",
     options |-> << <<"0", ":", "Low">>,
                  <<"1", ":", "Med">>,
                  <<"2", ":", "High">>,
                  <<"3", ":", "Ultra">> >>],
    [key |-> <<"setting.videocfg_ao_detail">>, type |-> "enum",
     options |-> << <<"0", ":", "Disabled">>,
                  <<"1", ":", "Low">>,
                  <<"2", ":", "High">> >>],
    [key |-> <<"setting.videocfg_hdr_detail">>, type |-> "enum",
     options |-> << <<"-", "1", ":", "Quality">>,
                  <<"0", ":", "Performance">>,
                  <<"1", ":", "Balanced">>,
                  <<"2", ":", "Quality">> >>],
    [key |-> <<"setting.videocfg_fsr_detail">>, type |-> "enum",
     options |-> << <<"0", ":", "Off">>,
                  <<"1", ":", "Performance">>,
                  <<"2", ":", "Balanced">>,
                  <<"3", ":", "Quality">>,
                  <<"4", ":", "Ultra", " ", "Quality">> >>],
    [key |-> <<"setting.r_low_latency">>, type |-> "enum",
     options |-> << <<"0", ":", "Disabled">>,
                  <<"1", ":", "Enabled">>,
                  <<"2", ":", "Enabled", " ", "+", " ", "Boost">> >>],
    [key |-> <<"setting.aspectratiomode">>, type |-> "enum",
     options |-> << <<"0", ":", "Auto">>,
                  <<"1", ":", "4", ":", "3", " ", "Str">>,
                  <<"2", ":", "1", "6", ":", "9">>,
                  <<"3", ":", "1", "6", ":", "1", "0">> >>],
    [key |-> <<"Version">>, type |-> "meta"],
    [key |-> <<"VendorID">>, type |-> "meta"],
    [key |-> <<"DeviceID">>, type |-> "meta"],
    [key |-> <<"Autoconfig">>, type |-> "meta"]
  >>

NKeys == Len(SETTINGS_SCHEMA)

SchemaKeys == {SETTINGS_SCHEMA[i].key : i \in 1..NKeys}

META_KEYS == {SETTINGS_SCHEMA[i].key : i \in {j \in 1..NKeys : SETTINGS_SCHEMA[j].type = "meta"}}

\* The widget registered for "setting.max_fps" is the spin box + slider
\* container: the plain spin box built for the key is replaced by it.
IsFpsComposite(i) == SETTINGS_SCHEMA[i].key = <<"setting.max_fps">>

\* The range of the spin box of key i: the composite's is set apart from the
\* schema's (fps_spin.setRange(0, 999)).
SpinMin(i) == IF IsFpsComposite(i) THEN 0 ELSE SETTINGS_SCHEMA[i].min
SpinMax(i) == IF IsFpsComposite(i) THEN 999 ELSE SETTINGS_SCHEMA[i].max

\* str.strip() of an option's parts.
RECURSIVE LStrip(_)
LStrip(s) == IF s # <<>> /\ Head(s) \in Whitespace THEN LStrip(Tail(s)) ELSE s

RECURSIVE RStrip(_)
RStrip(s) ==
  IF s # <<>> /\ s[Len(s)] \in Whitespace THEN RStrip(SubSeq(s, 1, Len(s) - 1)) ELSE s

Strip(s) == RStrip(LStrip(s))

\* opt.split(":", 1) when ":" is in opt; value and label are opt otherwise.
ColonAt(opt) ==
  IF \E i \in 1..Len(opt) : opt[i] = ":"
  THEN CHOOSE i \in 1..Len(opt) : opt[i] = ":" /\ \A j \in 1..(i - 1) : opt[j] # ":"
  ELSE 0

SplitValue(opt, c) == IF c = 0 THEN Strip(opt) ELSE Strip(SubSeq(opt, 1, c - 1))

SplitLabel(opt, c) == IF c = 0 THEN Strip(opt) ELSE Strip(SubSeq(opt, c + 1, Len(opt)))

OptValue(opt) == SplitValue(opt, ColonAt(opt))

OptLabel(opt) == SplitLabel(opt, ColonAt(opt))

\* combo.addItem(label, value) for each option of every enum key: the item
\* data and the item labels, in order.
ComboItems ==
  [i \in {j \in 1..NKeys : SETTINGS_SCHEMA[j].type = "enum"} |->
     [n \in 1..Len(SETTINGS_SCHEMA[i].options) |->
        [data  |-> OptValue(SETTINGS_SCHEMA[i].options[n]),
         label |-> OptLabel(SETTINGS_SCHEMA[i].options[n])]]]

ComboCount(i) == Len(ComboItems[i])

ComboData(i) == [n \in 1..ComboCount(i) |-> ComboItems[i][n].data]

ComboLabels(i) == [n \in 1..ComboCount(i) |-> ComboItems[i][n].label]

-----------------------------------------------------------------------------
(* Python int(str) and str(int).  A Python integer is unbounded; the one   *)
(* place its size matters is the C int argument of QSpinBox.setValue.  An  *)
(* integer is kept exactly while its magnitude fits a C int, and as its    *)
(* sign alone (big = 1 or -1) beyond that.                                 *)

CIntMax == 2147483647

Digits == <<"0", "1", "2", "3", "4", "5", "6", "7", "8", "9">>

IsDigit(c) == \E d \in 1..10 : Digits[d] = c

DigitVal(c) == (CHOOSE d \in 1..10 : Digits[d] = c) - 1

\* The magnitude of the digit string s, or -1 once it exceeds CIntMax.
RECURSIVE Magnitude(_, _)
Magnitude(s, acc) ==
  IF s = <<>> THEN acc
  ELSE IF acc > (CIntMax - DigitVal(Head(s))) \div 10 THEN -1
  ELSE Magnitude(Tail(s), acc * 10 + DigitVal(Head(s)))

\* int(s): surrounding whitespace dropped, an optional sign, then digits.
\* ok = FALSE stands for ValueError.
Signed(neg, m) ==
  IF m = -1 THEN [ok |-> TRUE, big |-> IF neg THEN -1 ELSE 1, val |-> 0]
  ELSE [ok |-> TRUE, big |-> 0, val |-> IF neg THEN -m ELSE m]

PyIntBody(neg, body) ==
  IF body # <<>> /\ \A i \in 1..Len(body) : IsDigit(body[i])
  THEN Signed(neg, Magnitude(body, 0))
  ELSE [ok |-> FALSE, big |-> 0, val |-> 0]

PyIntStripped(t) ==
  IF t # <<>> /\ Head(t) \in {"-", "+"} THEN PyIntBody(Head(t) = "-", Tail(t))
  ELSE PyIntBody(FALSE, t)

PyInt(s) == PyIntStripped(Strip(s))

Small(n) == [ok |-> TRUE, big |-> 0, val |-> n]

\* max(lo, min(hi, v)) for C-int sized lo <= hi.
PyClamp(lo, hi, v) ==
  IF v.big = 1 THEN Small(hi)
  ELSE IF v.big = -1 THEN Small(lo)
  ELSE Small(IF v.val < lo THEN lo ELSE IF v.val > hi THEN hi ELSE v.val)

\* str(n) for a spin box value.
RECURSIVE NatToStr(_)
NatToStr(n) ==
  IF n < 10 THEN <<Digits[n + 1]>>
  ELSE NatToStr(n \div 10) \o <<Digits[(n % 10) + 1]>>

IntToStr(n) == IF n < 0 THEN <<"-">> \o NatToStr(-n) ELSE NatToStr(n)

-----------------------------------------------------------------------------
(* The widgets.  widgets[i] is the value shown for SETTINGS_SCHEMA[i]: a   *)
(* check box's state, a spin box's value, a combo box's current index      *)
(* (from 0), a label's text.                                               *)

\* QSpinBox.setValue(v): the binding converts v to a C int and raises
\* OverflowError when it does not fit; the spin box then bounds the value
\* into its range.
SpinSetValue(i, cur, v) ==
  IF v.big # 0 THEN [raised |-> TRUE, w |-> cur]
  ELSE [raised |-> FALSE,
        w |-> IF v.val < SpinMin(i) THEN SpinMin(i)
              ELSE IF v.val > SpinMax(i) THEN SpinMax(i) ELSE v.val]

\* The index of the first item whose data equals val, or -1.
ComboFind(i, val) ==
  IF \E n \in 1..ComboCount(i) : ComboItems[i][n].data = val
  THEN (CHOOSE n \in 1..ComboCount(i) :
          /\ ComboItems[i][n].data = val
          /\ \A m \in 1..(n - 1) : ComboItems[i][m].data # val) - 1
  ELSE -1

\* The widgets as init_ui builds them, before populate_widgets.
InitialWidgets ==
  [i \in 1..NKeys |->
     CASE SETTINGS_SCHEMA[i].type = "bool" -> FALSE
       [] SETTINGS_SCHEMA[i].type = "int"  -> SpinSetValue(i, 0, Small(0)).w
       [] SETTINGS_SCHEMA[i].type = "enum" -> 0
       [] OTHER                            -> <<"-">>]

\* A plausible bug: a check box checked by any non-empty value other than "0".
PopulateBoolTruthy(val) == val # None /\ val # <<"0">>

\* bool: widget.setChecked(val == "1")
PopulateBool(val) == val = <<"1">>

\* int: the composite container parses with fallback min and hands the value
\* to its spin box unclamped and outside the try; a plain spin box parses,
\* clamps and sets inside the try, and is set to min on any exception.
IntParsed(i, cur, p) ==
  SpinSetValue(i, cur,
    IF ~p.ok THEN Small(SETTINGS_SCHEMA[i].min)
    ELSE IF IsFpsComposite(i) THEN p
    ELSE PyClamp(SETTINGS_SCHEMA[i].min, SETTINGS_SCHEMA[i].max, p))

PopulateInt(i, cur, val) ==
  IntParsed(i, cur, IF val # None THEN PyInt(val) ELSE Small(SETTINGS_SCHEMA[i].min))

\* A plausible bug: the fallback is the last option.
PopulateEnumLast(i, cur, val) ==
  IF val = None THEN ComboCount(i) - 1
  ELSE IF ComboFind(i, val) = -1 THEN ComboCount(i) - 1 ELSE ComboFind(i, val)

\* enum: the first item whose data equals val, else index 0.
EnumFound(n) == IF n = -1 THEN 0 ELSE n

PopulateEnum(i, cur, val) ==
  IF val = None THEN 0 ELSE EnumFound(ComboFind(i, val))

\* meta: widget.setText(val if val is not None else "-")
PopulateMeta(val) == IF val # None THEN val ELSE <<"-">>

\* One iteration of populate_widgets' loop.
PopulateValue(i, t, cur, val) ==
  CASE t = "bool" -> [raised |-> FALSE, w |-> PopulateBool(val)]
    [] t = "int"  -> PopulateInt(i, cur, val)
    [] t = "enum" -> [raised |-> FALSE, w |-> PopulateEnum(i, cur, val)]
    [] OTHER      -> [raised |-> FALSE, w |-> PopulateMeta(val)]

PopulateWidget(i, settings, cur) ==
  PopulateValue(i, SETTINGS_SCHEMA[i].type, cur, DictGet(settings, SETTINGS_SCHEMA[i].key))

\* populate_widgets: the widgets in registration order; an exception ends
\* the loop and leaves the widgets after it as they were.
RECURSIVE PopulateFrom(_, _, _)
PopulateNext(i, settings, ws, r) ==
  IF r.raised THEN [raised |-> TRUE, ws |-> ws]
  ELSE PopulateFrom(i + 1, settings, [ws EXCEPT ![i] = r.w])

PopulateFrom(i, settings, ws) ==
  IF i > NKeys THEN [raised |-> FALSE, ws |-> ws]
  ELSE PopulateNext(i, settings, ws, PopulateWidget(i, settings, ws[i]))

populate_widgets(settings, ws) == PopulateFrom(1, settings, ws)

\* "1" if widget.isChecked() else "0"
EncodeBool(b) == IF b THEN <<"1">> ELSE <<"0">>

\* A plausible bug: the metadata label's text is written back like any widget.
CollectWidgetWithMeta(i, settings, w) ==
  DictSet(settings, SETTINGS_SCHEMA[i].key,
          CASE SETTINGS_SCHEMA[i].type = "bool" -> EncodeBool(w)
            [] SETTINGS_SCHEMA[i].type = "int"  -> IntToStr(w)
            [] SETTINGS_SCHEMA[i].type = "enum" -> ComboItems[i][w + 1].data
            [] OTHER                            -> w)

\* A plausible bug: the store is rebuilt from the widgets alone.
CollectWidgetSchemaOnly(i, settings, w) ==
  IF SETTINGS_SCHEMA[i].type = "meta"
  THEN SelectSeq(settings, LAMBDA e : e.k \in SchemaKeys)
  ELSE DictSet(SelectSeq(settings, LAMBDA e : e.k \in SchemaKeys),
               SETTINGS_SCHEMA[i].key,
               CASE SETTINGS_SCHEMA[i].type = "bool" -> EncodeBool(w)
                 [] SETTINGS_SCHEMA[i].type = "int"  -> IntToStr(w)
                 [] OTHER                            -> ComboItems[i][w + 1].data)

\* One iteration of collect_widget_values' loop.
CollectWidget(i, settings, w) ==
  IF SETTINGS_SCHEMA[i].type = "meta"
  THEN settings
  ELSE DictSet(settings, SETTINGS_SCHEMA[i].key,
               CASE SETTINGS_SCHEMA[i].type = "bool" -> EncodeBool(w)
                 [] SETTINGS_SCHEMA[i].type = "int"  -> IntToStr(w)
                 [] OTHER                            -> ComboItems[i][w + 1].data)

RECURSIVE CollectFrom(_, _, _)
CollectFrom(i, settings, ws) ==
  IF i > NKeys THEN settings
  ELSE CHOOSE r \in {CollectFrom(i + 1, c, ws) :
                      c \in {CollectWidget(i, settings, ws[i])}} : TRUE

collect_widget_values(settings, ws) == CollectFrom(1, settings, ws)

-----------------------------------------------------------------------------
(* State.                                                                  *)

VARIABLES
  \* parse_config / serialize_config applied to a text
  tText, tStore, tOut, tStore2, tpc,
  \* populate_widgets / collect_widget_values applied to one raw value
  cKey, cRaw, cPrev, cWidgets, cRaised, cStore, cWidgets2, cpc,
  \* the editor: self.settings, self.widgets, self.last_path, the content of
  \* editor_state.json and whether it can be written, the config files, the
  \* Steam scan's candidates, the position in the program's life, the save
  \* just made, and the store as the last read of a file left it
  settings, widgets, last_path, persist, persistWritable, disk, steam, phase,
  lastSave, loaded,
  \* how many widget edits and saves have been made (bounded below)
  used

textVars   == <<tText, tStore, tOut, tStore2, tpc>>
codecVars  == <<cKey, cRaw, cPrev, cWidgets, cRaised, cStore, cWidgets2, cpc>>
editorVars == <<settings, widgets, last_path, persist, persistWritable, disk, steam,
                phase, lastSave, loaded, used>>
vars       == <<textVars, codecVars, editorVars>>

TextIdle ==
  /\ tText = <<>> /\ tStore = <<>> /\ tOut = <<>> /\ tStore2 = <<>> /\ tpc = "idle"

CodecIdle ==
  /\ cKey = 1 /\ cRaw = None /\ cPrev = InitialWidgets /\ cWidgets = InitialWidgets
  /\ cRaised = FALSE /\ cStore = <<>> /\ cWidgets2 = InitialWidgets /\ cpc = "idle"

-----------------------------------------------------------------------------
(* The parser and the serializer on bounded texts: a text is up to         *)
(* MaxChunks pieces, each a character or a quoted fragment.                *)

MaxChunks == 4

Chunks ==
  { <<Q>>, <<SP>>, <<NL>>,
    <<Q, "a", Q>>,
    <<Q, "a", Q, SP, Q, "1", Q>>,
    <<Q, "a", Q, TAB, TAB, Q, "2", Q, NL>>,
    <<Q, "b", SP, "{", Q, SP, Q, "}", Q>>,
    <<Q, "setting.fullscreen", Q, TAB, Q, "1", Q>>,
    <<Q, "video.cfg", Q>> }

RECURSIVE TextsOf(_)
TextsOf(n) ==
  IF n = 0 THEN {<<>>}
  ELSE LET shorter == TextsOf(n - 1)
       IN  shorter \cup {t \o c : t \in shorter, c \in Chunks}

TextInit ==
  /\ tText \in TextsOf(MaxChunks)
  /\ tStore = <<>> /\ tOut = <<>> /\ tStore2 = <<>> /\ tpc = "text"

ParseStep ==
  /\ tpc = "text"
  /\ tStore' = parse_config(tText)
  /\ tpc' = "parsed"
  /\ UNCHANGED <<tText, tOut, tStore2, codecVars, editorVars>>

SerializeStep ==
  /\ tpc = "parsed"
  /\ tOut' = serialize_config(tStore)
  /\ tpc' = "serialized"
  /\ UNCHANGED <<tText, tStore, tStore2, codecVars, editorVars>>

ReparseStep ==
  /\ tpc = "serialized"
  /\ tStore2' = parse_config(tOut)
  /\ tpc' = "reparsed"
  /\ UNCHANGED <<tText, tStore, tOut, codecVars, editorVars>>

-----------------------------------------------------------------------------
(* Decode and encode of one schema key: the store holds the key with a raw *)
(* value (or not at all), the widgets are in some earlier state.           *)

RawValues ==
  { <<"1">>, <<"0">>, <<"yes">>, <<"2">>, <<"9">>, <<"4">>, <<"-", "1">>,
    <<"5", "0", "0", "0">>, <<"-", "1", "0">>, <<"9", "9", "9">>,
    <<"+", "5">>, <<SP, "3">>, <<"1", ".", "5">>,
    <<"3", "0", "0", "0", "0", "0", "0", "0", "0", "0">> }

\* Widgets as a user may have left them: boxes checked, spin boxes at their
\* maximum, combo boxes on their last item.
EditedWidgets ==
  [i \in 1..NKeys |->
     CASE SETTINGS_SCHEMA[i].type = "bool" -> TRUE
       [] SETTINGS_SCHEMA[i].type = "int"  -> SpinMax(i)
       [] SETTINGS_SCHEMA[i].type = "enum" -> ComboCount(i) - 1
       [] OTHER                            -> <<"-">>]

StoreOf(i, raw) ==
  IF raw = None THEN <<>> ELSE <<[k |-> SETTINGS_SCHEMA[i].key, v |-> raw]>>

CodecInit ==
  /\ cKey \in 1..NKeys
  /\ cRaw \in RawValues \cup {None}
  /\ cPrev \in {InitialWidgets, EditedWidgets}
  /\ cWidgets = cPrev /\ cRaised = FALSE /\ cStore = <<>> /\ cWidgets2 = cPrev
  /\ cpc = "raw"

DecodeStep ==
  /\ cpc = "raw"
  /\ LET r == populate_widgets(StoreOf(cKey, cRaw), cPrev)
     IN  /\ cWidgets' = r.ws
         /\ cRaised' = r.raised
  /\ cpc' = "decoded"
  /\ UNCHANGED <<cKey, cRaw, cPrev, cStore, cWidgets2, textVars, editorVars>>

EncodeStep ==
  /\ cpc = "decoded"
  /\ ~cRaised
  /\ cStore' = collect_widget_values(StoreOf(cKey, cRaw), cWidgets)
  /\ cpc' = "encoded"
  /\ UNCHANGED <<cKey, cRaw, cPrev, cWidgets, cRaised, cWidgets2, textVars, editorVars>>

RedecodeStep ==
  /\ cpc = "encoded"
  /\ LET r == populate_widgets(cStore, cPrev)
     IN  /\ cWidgets2' = r.ws
         /\ cRaised' = r.raised
  /\ cpc' = "redecoded"
  /\ UNCHANGED <<cKey, cRaw, cPrev, cWidgets, cStore, textVars, editorVars>>


-----------------------------------------------------------------------------
(* The editor's environment: values of last_path, editor_state.json, the   *)
(* config files.                                                           *)

\* A Python value read from JSON: a string, a number or null.
Str(p)  == [t |-> "str", s |-> p, n |-> 0]
Num(n)  == [t |-> "int", s |-> "", n |-> n]
Null    == [t |-> "null", s |-> "", n |-> 0]

IsStr(x)  == x.t = "str"
Truthy(x) == (x.t = "str" /\ x.s # "") \/ (x.t = "int" /\ x.n # 0)

\* editor_state.json: absent, unreadable, not JSON, JSON that is no object,
\* or an object with or without "last_path".
NoFile       == [kind |-> "nofile",     has |-> FALSE, val |-> Null]
Unreadable   == [kind |-> "unreadable", has |-> FALSE, val |-> Null]
BadJson      == [kind |-> "badjson",    has |-> FALSE, val |-> Null]
NonObject    == [kind |-> "nonobject",  has |-> FALSE, val |-> Null]
EmptyObject  == [kind |-> "object",     has |-> FALSE, val |-> Null]
StateOf(x)   == [kind |-> "object",     has |-> TRUE,  val |-> x]

\* A config file: missing, or a file (readable or not) with its text.
Missing      == [exists |-> FALSE, readable |-> FALSE, text |-> <<>>]
File(t)      == [exists |-> TRUE,  readable |-> TRUE,  text |-> t]
Locked(t)    == [exists |-> TRUE,  readable |-> FALSE, text |-> t]

IsFile(d, p) == p \in DOMAIN d /\ d[p].exists

Paths == {"a.txt", "b.txt"}

Line(k, v) == <<TAB, Q>> \o k \o <<Q, TAB, TAB, Q>> \o v \o <<Q, NL>>

\* A file as the game writes it: metadata, settings, a key the schema does
\* not know.
CfgA ==
  <<Q, "video.cfg", Q, NL, "{", NL>>
    \o Line(<<"Version">>, <<"1", "5">>)
    \o Line(<<"setting.cpu_level">>, <<"2">>)
    \o Line(<<"setting.unknown_key">>, <<"7", SP, "x">>)
    \o Line(<<"setting.fullscreen">>, <<"1">>)
    \o Line(<<"setting.max_fps">>, <<"5", "0", "0", "0">>)
    \o <<"}", NL>>

\* A hand-edited file: an unknown key first, an undeclared enum value, a
\* boolean that is not "1", a key given twice.
CfgB ==
  Line(<<"other">>, <<"yes">>)
    \o Line(<<"setting.cpu_level">>, <<"9">>)
    \o Line(<<"setting.mat_vsync">>, <<"yes">>)
    \o Line(<<"VendorID">>, <<"4", "3">>)
    \o Line(<<"other">>, <<"no">>)

\* A file whose FPS limit does not fit a C int.
CfgBig ==
  Line(<<"setting.max_fps">>, <<"3", "0", "0", "0", "0", "0", "0", "0", "0", "0">>)
    \o Line(<<"Version">>, <<"1", "5">>)

-----------------------------------------------------------------------------
(* The editor's handlers.  Each returns or sets the whole state the        *)
(* handler leaves.                                                         *)

\* load_persist_state: last_path stays "" unless editor_state.json is a file
\* whose JSON object is read without an exception.
load_persist_state(ps) ==
  IF ps.kind = "object" /\ ps.has THEN ps.val ELSE Str("")

\* save_persist_state: {"last_path": last_path} replaces the file; when the
\* file cannot be opened for writing, the exception is swallowed and the file
\* stays as it was.
save_persist_state(lp, writable, ps) == IF writable THEN StateOf(lp) ELSE ps

\* populate_widgets over self.widgets, which is empty until init_ui has built
\* the widgets.
Populated(st, ws, built) ==
  IF built THEN populate_widgets(st, ws) ELSE [raised |-> FALSE, ws |-> ws]

ReadDone(new, r) ==
  [raised |-> r.raised, read |-> TRUE, settings |-> new, widgets |-> r.ws]

ReadParsed(new, ws, built) == ReadDone(new, Populated(new, ws, built))

\* read_config_file: open and read (an exception leaves everything as it
\* was), replace the store by the parse, populate the widgets (an exception
\* there leaves the new store).
read_config_file(d, path, st, ws, built) ==
  IF ~(IsFile(d, path) /\ d[path].readable)
  THEN [raised |-> TRUE, read |-> FALSE, settings |-> st, widgets |-> ws]
  ELSE ReadParsed(parse_config(d[path].text), ws, built)

\* What the last read_config_file that read a file made the store.
NotLoaded == [any |-> FALSE, store |-> <<>>]
Loaded(st) == [any |-> TRUE, store |-> st]

\* The save that was the last operation, if it was one: the file chosen,
\* what the file was before, the text serialized.
NoSave == [result |-> "none", path |-> "", before |-> Missing, txt |-> <<>>]

\* The state a handler works on.
Now ==
  [settings |-> settings, widgets |-> widgets, last_path |-> last_path,
   persist |-> persist, writable |-> persistWritable, disk |-> disk,
   steam |-> steam, loaded |-> loaded, built |-> TRUE, raised |-> FALSE]

\* The state after read_config_file returned r: the store and the widgets
\* it left, and the exception if it raised.
AfterRead(st, r) ==
  [st EXCEPT !.raised = r.raised, !.settings = r.settings, !.widgets = r.widgets,
             !.loaded = IF r.read THEN Loaded(r.settings) ELSE @]

\* self.last_path = path; save_persist_state()
Remembered(path, st) ==
  [st EXCEPT !.last_path = Str(path),
             !.persist = save_persist_state(Str(path), st.writable, @)]

\* After read_config_file(path) in a handler that goes on, when nothing was
\* raised, to remember the path.
ReadThenRemember(path, st) ==
  IF st.raised THEN st ELSE Remembered(path, st)

\* select_steam_config for the combo box's current item data `path` (a
\* slot: an exception in it ends the program).  Its second populate_widgets
\* sets the same values again.
SelectSteam(path, st) ==
  IF ~IsFile(st.disk, path) THEN st
  ELSE ReadThenRemember(path,
         AfterRead(st, read_config_file(st.disk, path, st.settings, st.widgets, st.built)))

\* The candidate config files the scan finds: the Steam user directories
\* whose cs2_video.txt is a file.
SteamFound(d, cands) == SelectSeq(cands, LAMBDA p : IsFile(d, p))

FirstFound(found, st) ==
  IF found = <<>> THEN st ELSE SelectSteam(found[1], st)

\* scan_steam_users: the combo box is cleared and refilled; adding the first
\* item makes it current, and currentIndexChanged runs select_steam_config
\* on it (clearing a filled box runs it with no item, which loads nothing).
scan_steam_users(st) == FirstFound(SteamFound(st.disk, st.steam), st)

Become(st, ph, op) ==
  /\ settings' = st.settings
  /\ widgets' = st.widgets
  /\ last_path' = st.last_path
  /\ persist' = st.persist
  /\ persistWritable' = st.writable
  /\ disk' = st.disk
  /\ steam' = st.steam
  /\ loaded' = st.loaded
  /\ phase' = ph
  /\ lastSave' = op

\* __init__, last part: the read of last_path inside try/except.
InitRead(st) ==
  IF Truthy(st.last_path) /\ IsFile(st.disk, st.last_path.s)
  THEN [AfterRead(st, read_config_file(st.disk, st.last_path.s, st.settings,
                                       st.widgets, TRUE))
          EXCEPT !.raised = FALSE]
  ELSE st

\* init_ui, after the scan: the widgets are built and populated.
InitWidgets(st, p) ==
  IF p.raised THEN [st EXCEPT !.raised = TRUE]
  ELSE InitRead([st EXCEPT !.widgets = p.ws, !.built = TRUE])

InitScanned(st) ==
  IF st.raised THEN st
  ELSE InitWidgets(st, populate_widgets(st.settings, st.widgets))

\* init_ui, first part: the path label, then the Steam scan with no widget
\* built yet.
InitUi(st) ==
  IF Truthy(st.last_path) /\ ~IsStr(st.last_path)
  THEN \* QLabel(self.last_path or "<No file loaded>") raises TypeError
       [st EXCEPT !.raised = TRUE]
  ELSE InitScanned(scan_steam_users(st))

\* __init__: load_persist_state, init_ui, the read of last_path.
Constructed(st) ==
  InitUi([st EXCEPT !.last_path = load_persist_state(st.persist), !.built = FALSE])

\* The handler has left state st; an exception that nothing caught makes the
\* program `ph`.
Outcome(st, ph) == Become(st, IF st.raised THEN ph ELSE "running", NoSave)

Construct ==
  /\ phase = "start"
  /\ \E st \in {Constructed(Now)} : Outcome(st, "crashed")
  /\ UNCHANGED <<used, textVars, codecVars>>

\* load_config with the file the dialog returned; an exception is shown in a
\* message box.
LoadedConfig(fname, st) ==
  ReadThenRemember(fname,
    AfterRead(st, read_config_file(st.disk, fname, st.settings, st.widgets, TRUE)))

LoadConfig ==
  /\ phase = "running"
  /\ \E fname \in {p \in Paths : IsFile(disk, p)} :
       \E st \in {LoadedConfig(fname, Now)} : Outcome(st, "running")
  /\ UNCHANGED <<used, textVars, codecVars>>

\* The open-file dialog dismissed: load_config does nothing.
LoadCancelled ==
  /\ phase = "running"
  /\ Become(Now, "running", NoSave)
  /\ UNCHANGED <<used, textVars, codecVars>>

\* reload_from_disk: read_config_file(last_path) and populate_widgets inside
\* try/except, or a message when there is no last_path.
Reloaded(st) ==
  IF Truthy(st.last_path)
  THEN AfterRead(st, read_config_file(st.disk, st.last_path.s, st.settings,
                                      st.widgets, TRUE))
  ELSE st

ReloadFromDisk ==
  /\ phase = "running"
  /\ \E st \in {Reloaded(Now)} : Outcome(st, "running")
  /\ UNCHANGED <<used, textVars, codecVars>>

AfterPopulate(st, r) == [st EXCEPT !.widgets = r.ws, !.raised = r.raised]

\* "Reset Unsaved": populate_widgets as a slot; an exception in a slot ends
\* the program.
ResetUnsaved ==
  /\ phase = "running"
  /\ \E st \in {AfterPopulate(Now, populate_widgets(settings, widgets))} :
       Outcome(st, "crashed")
  /\ UNCHANGED <<used, textVars, codecVars>>

\* "Rescan Steam": scan_steam_users as a slot.
RescanSteam ==
  /\ phase = "running"
  /\ \E st \in {scan_steam_users(Now)} : Outcome(st, "crashed")
  /\ UNCHANGED <<used, textVars, codecVars>>

\* The user's edits: a widget of EditableKeys is set to an end of its range.
MaxEdits == 1
MaxSaves == 1

\* max_fps (the composite), fullscreen, cpu_level.
EditableKeys == {1, 6, 9}

EditValues(i) ==
  CASE SETTINGS_SCHEMA[i].type = "bool" -> BOOLEAN
    [] SETTINGS_SCHEMA[i].type = "int"  -> {SpinMin(i), SpinMax(i)}
    [] SETTINGS_SCHEMA[i].type = "enum" -> {0, ComboCount(i) - 1}
    [] OTHER                            -> {}

EditWidget ==
  /\ phase = "running"
  /\ used.edits < MaxEdits
  /\ \E i \in EditableKeys :
       \E v \in EditValues(i) \ {widgets[i]} :
         Become([Now EXCEPT !.widgets[i] = v], "running", NoSave)
  /\ used' = [used EXCEPT !.edits = @ + 1]
  /\ UNCHANGED <<textVars, codecVars>>

\* What a failed write may leave of the text in the file opened with "w":
\* nothing, or a part.
WriteCuts(txt) == {<<>>, SubSeq(txt, 1, Len(txt) \div 2)}

\* save_config up to the dialog: an empty store is filled from the widgets.
SavePrepared(st) ==
  IF st.settings = <<>>
  THEN [st EXCEPT !.settings = collect_widget_values(st.settings, st.widgets)]
  ELSE st

Collected(st) ==
  [st EXCEPT !.settings = collect_widget_values(st.settings, st.widgets)]

\* with open(fname, "w") as f: f.write(txt), then last_path and the state
\* file; "w" truncates the file as it opens it.
Written(fname, fileOutcome, cut, txt, st) ==
  CASE fileOutcome = "ok" ->
         Remembered(fname, [st EXCEPT !.disk[fname] = File(txt)])
    [] fileOutcome = "open_failed" -> [st EXCEPT !.raised = TRUE]
    [] OTHER -> [st EXCEPT !.raised = TRUE, !.disk[fname] = File(cut)]

SaveOp(st, fname, txt) ==
  [result |-> IF st.raised THEN "failed" ELSE "ok",
   path |-> fname, before |-> disk[fname], txt |-> txt]

\* save_config with the file the dialog returned: the store collected (st),
\* its text (txt), the write.
SavedConfig(fname, fileOutcome, cut, txt, st) ==
  \E w \in {Written(fname, fileOutcome, cut, txt, st)} :
    Become(w, "running", SaveOp(w, fname, txt))

SaveConfig ==
  /\ phase = "running"
  /\ used.saves < MaxSaves
  /\ \E st \in {Collected(SavePrepared(Now))} :
       \E txt \in {serialize_config(st.settings)} :
         \E fname \in Paths, fileOutcome \in {"ok", "open_failed", "write_failed"} :
           \E cut \in IF fileOutcome = "write_failed" THEN WriteCuts(txt) ELSE {<<>>} :
             SavedConfig(fname, fileOutcome, cut, txt, st)
  /\ used' = [used EXCEPT !.saves = @ + 1]
  /\ UNCHANGED <<textVars, codecVars>>

\* save_config with the dialog dismissed.
SaveCancelled ==
  /\ phase = "running"
  /\ \E st \in {SavePrepared(Now)} : Become(st, "running", NoSave)
  /\ UNCHANGED <<used, textVars, codecVars>>

\* closeEvent: collect_widget_values, save_persist_state.
Closed(st) ==
  [Collected(st) EXCEPT !.persist = save_persist_state(st.last_path, st.writable, @)]

CloseEvent ==
  /\ phase = "running"
  /\ \E st \in {Closed(Now)} : Become(st, "closed", NoSave)
  /\ UNCHANGED <<used, textVars, codecVars>>

-----------------------------------------------------------------------------
(* Specifications.                                                         *)

EditorIdle ==
  /\ settings = <<>> /\ widgets = InitialWidgets /\ last_path = Str("")
  /\ persist = NoFile /\ persistWritable = TRUE
  /\ disk = [p \in Paths |-> Missing] /\ steam = <<>>
  /\ phase = "idle" /\ lastSave = NoSave /\ loaded = NotLoaded
  /\ used = [edits |-> 0, saves |-> 0]

\* What editor_state.json may hold when the program starts.
PersistStates ==
  { NoFile, Unreadable, BadJson, NonObject, EmptyObject,
    StateOf(Str("")), StateOf(Str("a.txt")), StateOf(Str("b.txt")),
    StateOf(Num(5)), StateOf(Num(0)), StateOf(Null) }

\* The process before __init__: empty store, no widgets yet.
EditorStart ==
  /\ settings = <<>> /\ widgets = InitialWidgets /\ last_path = Str("")
  /\ phase = "start" /\ lastSave = NoSave /\ loaded = NotLoaded
  /\ used = [edits |-> 0, saves |-> 0]

\* The editor in use: a.txt a config file, b.txt the one Steam user's
\* cs2_video.txt if there is one; no state file or one naming a.txt.
Init ==
  /\ TextIdle /\ CodecIdle /\ EditorStart
  /\ persist \in {NoFile, StateOf(Str("a.txt"))}
  /\ persistWritable \in BOOLEAN
  /\ disk \in [Paths -> {Missing, File(CfgA), File(CfgB), File(CfgBig)}]
  /\ disk["a.txt"] \in {File(CfgA), File(CfgBig)}
  /\ disk["b.txt"] \in {Missing, File(CfgB)}
  /\ steam = <<"b.txt">>

Next ==
  \/ Construct
  \/ LoadConfig
  \/ LoadCancelled
  \/ ReloadFromDisk
  \/ ResetUnsaved
  \/ RescanSteam
  \/ EditWidget
  \/ SaveConfig
  \/ SaveCancelled
  \/ CloseEvent

Spec == Init /\ [][Next]_vars

\* Startup alone, over everything editor_state.json may hold.
StartupInit ==
  /\ TextIdle /\ CodecIdle /\ EditorStart
  /\ persist \in PersistStates
  /\ persistWritable \in BOOLEAN
  /\ disk \in [Paths -> {Missing, File(CfgA), Locked(CfgA), File(CfgBig)}]
  /\ steam \in {<<>>, <<"b.txt">>}

StartupNext == Construct \/ CloseEvent

SpecStartup == StartupInit /\ [][StartupNext]_vars

TextNext == ParseStep \/ SerializeStep \/ ReparseStep

InitText == TextInit /\ CodecIdle /\ EditorIdle

SpecText == InitText /\ [][TextNext]_vars

CodecNext == DecodeStep \/ EncodeStep \/ RedecodeStep

InitCodec == CodecInit /\ TextIdle /\ EditorIdle

SpecCodec == InitCodec /\ [][CodecNext]_vars

-----------------------------------------------------------------------------
(* Properties of parse_config and serialize_config (SpecText).             *)

\* C1 - Round trip: a store that parse_config produced from any text, once
\* serialized and parsed again, is the same store: the same keys, the same
\* values, the same order, and nothing more (the header and the braces add
\* no entry).
C1_RoundTrip ==
  tpc = "reparsed" => tStore2 = tStore

\* A round trip of a store with several entries, one key holding a space and
\* a brace.
C1_Witness ==
  /\ tpc = "reparsed"
  /\ Len(tStore) >= 2
  /\ \E i \in 1..Len(tStore) : tStore[i].k = <<"b", SP, "{">> /\ tStore[i].v = <<"}">>
  /\ tStore2 = tStore

\* Every match of the regex in the text, line by line, left to right.
RECURSIVE MatchesOf(_)
MatchesOf(lines) ==
  IF lines = <<>> THEN <<>>
  ELSE FindAll(Head(lines), 1) \o MatchesOf(Tail(lines))

FirstAt(ms, k) == CHOOSE i \in 1..Len(ms) : ms[i].k = k /\ \A j \in 1..(i - 1) : ms[j].k # k

LastAt(ms, k) ==
  CHOOSE i \in 1..Len(ms) : ms[i].k = k /\ \A j \in (i + 1)..Len(ms) : ms[j].k # k

DuplicatePolicy(store, ms) ==
  /\ \A i, j \in 1..Len(store) : i # j => store[i].k # store[j].k
  /\ {store[i].k : i \in 1..Len(store)} = {ms[i].k : i \in 1..Len(ms)}
  /\ \A i \in 1..Len(store) : store[i].v = ms[LastAt(ms, store[i].k)].v
  /\ \A i, j \in 1..Len(store) :
       i < j => FirstAt(ms, store[i].k) < FirstAt(ms, store[j].k)

\* C3 - Duplicate keys: the parsed store holds every matched key exactly
\* once, with the value of its last occurrence in the text, at the position
\* of its first occurrence relative to the other keys.
C3_DuplicateKeys ==
  tpc = "parsed" => DuplicatePolicy(tStore, MatchesOf(SplitLines(tText)))

\* A text with a key, another key, and the first key again with another
\* value: the store has the first key first, with the later value.
C3_Witness ==
  /\ tpc = "parsed"
  /\ \E ms \in {MatchesOf(SplitLines(tText))} :
       /\ Len(ms) = 3
       /\ ms[1].k = ms[3].k /\ ms[1].v # ms[3].v /\ ms[2].k # ms[1].k
       /\ tStore = <<[k |-> ms[1].k, v |-> ms[3].v], [k |-> ms[2].k, v |-> ms[2].v]>>

\* The entry lines of the format, each closed by a newline.
RECURSIVE EntriesText(_)
EntriesText(store) ==
  IF store = <<>> THEN <<>>
  ELSE <<TAB, Q>> \o Head(store).k \o <<Q, TAB, TAB, Q>> \o Head(store).v \o <<Q, NL>>
         \o EntriesText(Tail(store))

FullscreenOnly == <<[k |-> <<"setting.fullscreen">>, v |-> <<"1">>]>>

\* C10 - Serialization format: the quoted "video.cfg" line, the line {, one
\* line per entry in store order (a tab, the quoted key, two tabs, the quoted
\* value), the line }, joined by single newlines and nothing after the
\* brace: n + 3 lines for n entries, and for {"setting.fullscreen": "1"}
\* exactly "video.cfg"\n{\n\t"setting.fullscreen"\t\t"1"\n}.
C10_Format ==
  tpc \in {"serialized", "reparsed"} =>
    /\ tOut = <<Q, "video.cfg", Q, NL, "{", NL>> \o EntriesText(tStore) \o <<"}">>
    /\ Cardinality({i \in 1..Len(tOut) : tOut[i] = NL}) + 1 = Len(tStore) + 3
    /\ tStore = FullscreenOnly =>
         tOut = <<Q, "video.cfg", Q, NL, "{", NL,
                  TAB, Q, "setting.fullscreen", Q, TAB, TAB, Q, "1", Q, NL, "}">>

\* The store {"setting.fullscreen": "1"} serialized.
C10_Witness ==
  /\ tpc = "serialized"
  /\ tStore = FullscreenOnly
  /\ Len(tOut) = 17

-----------------------------------------------------------------------------
(* Properties of populate_widgets and collect_widget_values on one key     *)
(* (SpecCodec).                                                            *)

\* The integer a raw value denotes, for the raw values of RawValues (the
\* ten-digit one is given as a value above every declared maximum).
IntOf(raw) ==
  CASE raw = <<"1">> -> [int |-> TRUE, val |-> 1]
    [] raw = <<"0">> -> [int |-> TRUE, val |-> 0]
    [] raw = <<"2">> -> [int |-> TRUE, val |-> 2]
    [] raw = <<"9">> -> [int |-> TRUE, val |-> 9]
    [] raw = <<"4">> -> [int |-> TRUE, val |-> 4]
    [] raw = <<"-", "1">> -> [int |-> TRUE, val |-> -1]
    [] raw = <<"5", "0", "0", "0">> -> [int |-> TRUE, val |-> 5000]
    [] raw = <<"-", "1", "0">> -> [int |-> TRUE, val |-> -10]
    [] raw = <<"9", "9", "9">> -> [int |-> TRUE, val |-> 999]
    [] raw = <<"+", "5">> -> [int |-> TRUE, val |-> 5]
    [] raw = <<SP, "3">> -> [int |-> TRUE, val |-> 3]
    [] raw = <<"3", "0", "0", "0", "0", "0", "0", "0", "0", "0">> ->
         [int |-> TRUE, val |-> 2000000000]
    [] OTHER -> [int |-> FALSE, val |-> 0]

ClampedInto(lo, hi, n) == IF n < lo THEN lo ELSE IF n > hi THEN hi ELSE n

ExpectedInt(i, raw) ==
  IF raw = None \/ ~IntOf(raw).int THEN SETTINGS_SCHEMA[i].min
  ELSE ClampedInto(SETTINGS_SCHEMA[i].min, SETTINGS_SCHEMA[i].max, IntOf(raw).val)

\* C6 - Integer decode: for every integer key, setting.max_fps with its
\* composite widget included, decoding shows min when the key is absent or
\* its raw value is no integer, and the integer clamped into [min, max]
\* otherwise.
C6_IntegerDecode ==
  (cpc = "decoded" /\ SETTINGS_SCHEMA[cKey].type = "int") =>
    /\ ~cRaised
    /\ cWidgets[cKey] = ExpectedInt(cKey, cRaw)

\* The options of enum key i whose raw value is raw, by position.
MatchingOptions(i, raw) ==
  {n \in 1..Len(SETTINGS_SCHEMA[i].options) : OptValue(SETTINGS_SCHEMA[i].options[n]) = raw}

ExpectedOption(i, raw) ==
  IF MatchingOptions(i, raw) = {} THEN 1
  ELSE CHOOSE n \in MatchingOptions(i, raw) : \A m \in MatchingOptions(i, raw) : n <= m

CpuLevel == CHOOSE i \in 1..NKeys : SETTINGS_SCHEMA[i].key = <<"setting.cpu_level">>

\* C8 - Enum decode: the option shown is the first declared option whose raw
\* value is the stored raw value, and the first declared option when none
\* matches or the key is absent; setting.cpu_level "9" shows "0" (Low), "2"
\* shows "2" (High).
C8_EnumDecode ==
  (cpc = "decoded" /\ SETTINGS_SCHEMA[cKey].type = "enum") =>
    /\ cWidgets[cKey] + 1 = ExpectedOption(cKey, cRaw)
    /\ (cKey = CpuLevel /\ cRaw = <<"9">>) =>
         ComboItems[cKey][cWidgets[cKey] + 1] = [data |-> <<"0">>, label |-> <<"Low">>]
    /\ (cKey = CpuLevel /\ cRaw = <<"2">>) =>
         ComboItems[cKey][cWidgets[cKey] + 1] = [data |-> <<"2">>, label |-> <<"High">>]

\* setting.cpu_level "9" decoded over a combo box that showed its last
\* option: the first option is shown.
C8_Witness ==
  /\ cpc = "decoded"
  /\ cKey = CpuLevel /\ cRaw = <<"9">>
  /\ cPrev = EditedWidgets /\ cPrev[cKey] = 3
  /\ cWidgets[cKey] = 0

\* C9 - Boolean decode and encode: a check box is checked exactly when the
\* stored raw value is "1" (not for "0", "yes", ..., nor for an absent key);
\* checked is written "1" and unchecked "0"; decoding what was written gives
\* the same check box state.
C9_Boolean ==
  SETTINGS_SCHEMA[cKey].type = "bool" =>
    /\ cpc \in {"decoded", "encoded", "redecoded"} => cWidgets[cKey] = (cRaw = <<"1">>)
    /\ cpc \in {"encoded", "redecoded"} =>
         DictGet(cStore, SETTINGS_SCHEMA[cKey].key)
           = IF cWidgets[cKey] THEN <<"1">> ELSE <<"0">>
    /\ cpc = "redecoded" => cWidgets2[cKey] = cWidgets[cKey]

\* "yes" decoded over a checked box, written and decoded again: unchecked,
\* "0", unchecked.
C9_Witness ==
  /\ cpc = "redecoded"
  /\ SETTINGS_SCHEMA[cKey].key = <<"setting.fullscreen">>
  /\ cRaw = <<"yes">> /\ cPrev = EditedWidgets
  /\ cWidgets[cKey] = FALSE
  /\ DictGet(cStore, <<"setting.fullscreen">>) = <<"0">>
  /\ cWidgets2[cKey] = FALSE

-----------------------------------------------------------------------------
(* Properties of the editor at startup (SpecStartup) and in use (Spec).    *)

\* editor_state.json gives a last_path that names a readable file.
Usable(ps, d) ==
  /\ ps.kind = "object" /\ ps.has /\ IsStr(ps.val) /\ ps.val.s # ""
  /\ IsFile(d, ps.val.s) /\ d[ps.val.s].readable

\* C5 - Whatever editor_state.json holds at startup, construction completes
\* without raising, and an unusable state leaves the default state: no
\* last_path, empty store.  (Stated for the runs in which the Steam scan
\* finds no file, so that only editor_state.json decides.)
C5_StartupNeverFails ==
  (phase \in {"running", "crashed"} /\ SteamFound(disk, steam) = <<>>) =>
    /\ phase = "running"
    /\ ~Usable(persist, disk) => ~Truthy(last_path) /\ settings = <<>>

\* C4 - A save that fails (at open, write or close) leaves the target file
\* with exactly the content it had before the save.
C4_AllOrNothing ==
  lastSave.result = "failed" => disk[lastSave.path] = lastSave.before

\* The store entries whose keys came from the loaded file.
FromFile(store) == SelectSeq(store, LAMBDA e : DictHas(loaded.store, e.k))

\* Every key of the loaded file that the schema does not know is in the
\* store with the value loaded, and the keys of the file are in the store in
\* the file's order.
KeptIn(store) ==
  /\ \A i \in 1..Len(loaded.store) :
       loaded.store[i].k \notin SchemaKeys =>
         DictGet(store, loaded.store[i].k) = loaded.store[i].v
  /\ DictKeys(FromFile(store)) = DictKeys(loaded.store)

\* C2 - Unknown keys: after a load, through widget edits, Reset Unsaved and
\* saves, the store and the text a save serialized hold every key of the
\* loaded text that is not in SETTINGS_SCHEMA with the value loaded, and the
\* keys that came from the file keep their relative order.
C2_UnknownKeysKept ==
  loaded.any =>
    /\ KeptIn(settings)
    /\ lastSave.result # "none" => KeptIn(parse_config(lastSave.txt))

\* A file with a key the schema does not know, loaded, a widget edited, the
\* store saved: the store changed, the key and its value are in the text.
C2_Witness ==
  /\ loaded.any
  /\ DictGet(loaded.store, <<"setting.unknown_key">>) = <<"7", SP, "x">>
  /\ used.edits = 1
  /\ lastSave.result = "ok"
  /\ settings # loaded.store
  /\ DictGet(parse_config(disk[lastSave.path].text), <<"setting.unknown_key">>)
       = <<"7", SP, "x">>

\* C7 - Metadata: after a load, through edits, Reset Unsaved, saves and
\* close, the store's entry of every meta key (Version, VendorID, DeviceID,
\* Autoconfig) is what the load produced: the same value, or still absent.
C7_MetadataNeverEdited ==
  loaded.any =>
    \A k \in META_KEYS : DictGet(settings, k) = DictGet(loaded.store, k)

\* A file with Version and without VendorID, loaded, edited, and the editor
\* closed (the store collected): Version as loaded, VendorID absent.
C7_Witness ==
  /\ phase = "closed"
  /\ loaded.any
  /\ used.edits = 1
  /\ DictGet(loaded.store, <<"Version">>) = <<"1", "5">>
  /\ DictGet(settings, <<"Version">>) = <<"1", "5">>
  /\ ~DictHas(settings, <<"VendorID">>)
  /\ Len(settings) > Len(loaded.store)

-----------------------------------------------------------------------------
(* Properties of single handlers: what one step of the editor may change.  *)

\* C11 - Startup restores the last used file: when editor_state.json names
\* an existing readable config file P, a construction that finishes leaves
\* last_path = P and the store equal to the parse of P's text, and leaves
\* editor_state.json as it was, whatever files the Steam scan finds.
C11_StartupRestoresLastFile ==
  [][(Construct /\ Usable(persist, disk) /\ phase' = "running") =>
       /\ last_path' = persist.val
       /\ settings' = parse_config(disk[persist.val.s].text)
       /\ persist' = persist]_vars

\* C12 - Rescanning only refreshes the candidate list: a press of "Rescan
\* Steam", in any state and whatever the scan finds, leaves the store, the
\* values the setting widgets show, last_path and editor_state.json as they
\* were.
C12_RescanRefreshesOnly ==
  [][RescanSteam => UNCHANGED <<settings, widgets, last_path, persist>>]_vars

\* C13 - A cancelled save changes nothing: save_config with the file dialog
\* dismissed leaves the store (keys, values, order), last_path and
\* editor_state.json as they were, for every prior state, the empty store
\* included; so what "Reset Unsaved" would show afterwards is what it would
\* have shown before.
C13_CancelledSaveChangesNothing ==
  [][SaveCancelled =>
       /\ UNCHANGED <<settings, last_path, persist>>
       /\ populate_widgets(settings', widgets').ws
            = populate_widgets(settings, widgets).ws]_vars

-----------------------------------------------------------------------------
(* Load then save without edits (SpecLoadSave): files are loaded at        *)
(* startup or from the dialog, shown, and saved with no widget touched.    *)

\* A file whose schema keys all hold canonical values, with a metadata key
\* and a key the schema does not know between them.
CfgCanon ==
  Line(<<"Version">>, <<"1", "5">>)
    \o Line(<<"setting.defaultres">>, <<"1", "9", "2", "0">>)
    \o Line(<<"setting.fullscreen">>, <<"1">>)
    \o Line(<<"setting.unknown_key">>, <<"7", SP, "x">>)
    \o Line(<<"setting.cpu_level">>, <<"2">>)
    \o Line(<<"setting.max_fps">>, <<"4", "0", "0">>)

\* A file with canonical values and an FPS limit that does not fit a C int.
CfgBigFull ==
  Line(<<"setting.fullscreen">>, <<"1">>)
    \o Line(<<"setting.defaultres">>, <<"1", "9", "2", "0">>)
    \o Line(<<"setting.max_fps">>, <<"3", "0", "0", "0", "0", "0", "0", "0", "0", "0">>)

LoadSaveInit ==
  /\ TextIdle /\ CodecIdle /\ EditorStart
  /\ persist \in {NoFile, StateOf(Str("a.txt"))}
  /\ persistWritable = TRUE
  /\ disk \in [Paths -> {Missing, File(CfgA), File(CfgB), File(CfgCanon), File(CfgBigFull)}]
  /\ steam = <<>>

LoadSaveNext == Construct \/ LoadConfig \/ ResetUnsaved \/ SaveConfig

SpecLoadSave == LoadSaveInit /\ [][LoadSaveNext]_vars

SchemaIndex(k) == CHOOSE i \in 1..NKeys : SETTINGS_SCHEMA[i].key = k

\* The decimal string v is the canonical form of an integer of lo..hi.
CanonicalInt(v, lo, hi) ==
  /\ PyInt(v).ok /\ PyInt(v).big = 0
  /\ lo <= PyInt(v).val /\ PyInt(v).val <= hi
  /\ IntToStr(PyInt(v).val) = v

\* v is canonical for the kind of schema key i.
Canonical(i, v) ==
  CASE SETTINGS_SCHEMA[i].type = "bool" -> v \in {<<"0">>, <<"1">>}
    [] SETTINGS_SCHEMA[i].type = "int"  ->
         CanonicalInt(v, SETTINGS_SCHEMA[i].min, SETTINGS_SCHEMA[i].max)
    [] SETTINGS_SCHEMA[i].type = "enum" -> MatchingOptions(i, v) # {}
    [] OTHER                            -> TRUE

\* An entry that populate_widgets then collect_widget_values may rewrite: a
\* non-metadata schema key whose value is not canonical.
Rewritable(e) ==
  /\ e.k \in SchemaKeys \ META_KEYS
  /\ ~Canonical(SchemaIndex(e.k), e.v)

\* `after` is `before` with nothing changed but rewritable values, followed
\* by the non-metadata schema keys that `before` lacked.
OnlyCanonicalised(before, after) ==
  /\ Len(after) >= Len(before)
  /\ \A n \in 1..Len(before) :
       /\ after[n].k = before[n].k
       /\ after[n].v # before[n].v => Rewritable(before[n])
  /\ \A n \in (Len(before) + 1)..Len(after) :
       /\ after[n].k \in SchemaKeys \ META_KEYS
       /\ ~DictHas(before, after[n].k)

\* populate_widgets then collect_widget_values once more changes nothing.
Settled(store, ws) ==
  /\ ~populate_widgets(store, ws).raised
  /\ collect_widget_values(store, populate_widgets(store, ws).ws) = store

\* C14 - Load then save without edits: after a file was loaded and the
\* store saved with no widget edited, every loaded key whose value was
\* canonical for its kind has its value and its position in the store; the
\* store differs from the loaded one only by rewritten non-canonical values
\* of schema keys and by the absent non-metadata schema keys appended after
\* the loaded keys; and populating and collecting again changes nothing.
C14_LoadSaveKeepsValid ==
  (loaded.any /\ lastSave.result # "none" /\ used.edits = 0) =>
    /\ OnlyCanonicalised(loaded.store, settings)
    /\ Settled(settings, widgets)

=============================================================================
